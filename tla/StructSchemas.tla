---------------------------- MODULE StructSchemas ----------------------------
(***************************************************************************)
(* Struct types and schemas (struct_schema.go): a schema derived from a    *)
(* struct type, struct types suggested from a schema, and the comparison   *)
(* of the two.  All of it works on types and entries; the state is what    *)
(* somebody keeps who moves between them: the types of a program, a        *)
(* compiled schema, a suggestion and a report.                             *)
(*                                                                         *)
(* A Go type is a kind, a name ("" if it has none) and, of a pointer, a    *)
(* slice or an array, the type of the elements; of a struct type the       *)
(* program has the fields.  A path is a sequence of names and of Element.  *)
(***************************************************************************)
EXTENDS SchemaEntries, FiniteSets

CONSTANTS
  Programs,     \* the programs one may begin with: types by name, and a root
  SchemaTexts,  \* the schemas one may begin with
  Configs,      \* what the options of a call come to
  TypeNames,    \* the names suggestions are asked for
  Exported,     \* [name -> exportedGoName(name)]
  Singular,     \* [Go name -> singularGoName(name)]
  Identifiers,  \* the Go names that are identifiers
  FormatGoTypes, \* [format name -> the Go type registered with it, if any]
  ForeignTypes  \* [name -> fields]: the struct types suggested code refers to
                \*  and does not define

VARIABLES
  program,     \* its struct types and the root among them
  schema,      \* what the last compilation returned
  suggestion,  \* what NewStructSuggestionFromSchema returned, if it was the last call
  report,      \* what CompareStructToSchema returned, if it was
  basis,       \* the schema the program was suggested from, if it was
  derivedWith  \* the options with which the schema was derived from the program

vars == <<program, schema, suggestion, report, basis, derivedWith>>

GoType(kind)     == [kind |-> kind, name |-> ""]
Of(kind, elem)   == [kind |-> kind, name |-> "", elem |-> elem]
Struct(name)     == [kind |-> "struct", name |-> name]
JSONNumber       == [kind |-> "string", name |-> "json.Number"]
JSONValueType    == Struct("JSONValue")
GoKinds          == {"string", "boolean", "number"}

Element == "[0]"

Finding(category, path) == [category |-> category, path |-> path]

-----------------------------------------------------------------------------
(* From a struct type: what its fields map to.                             *)

RECURSIVE Behind(_), inspectGoType(_, _, _, _)

Behind(type) == IF type.kind = "pointer" THEN Behind(type.elem) ELSE type

\* parseStructJSONTag.  `json:"-"` skips a field, `json:"-,omitempty"` does not.
Skipped(f)  == ~f.exported \/ (f.tag = "-" /\ ~f.omitempty)
Explicit(f) == f.tag # ""
JSONName(f) == IF Explicit(f) THEN f.tag ELSE f.go

Mapped(kind) == [kind |-> kind, format |-> "", children |-> <<>>, item |-> <<>>,
                 findings |-> {}]

\* The fields of a struct type, and the findings in it and below; `path` says
\* where it stands, `seen` which struct types it stands in.
inspectStructType(name, cfg, path, seen) ==
  LET fields    == SelectSeq(program.types[name], LAMBDA f : ~Skipped(f))
      At(f)     == Append(path, JSONName(f))
      mapped    == [i \in DOMAIN fields |->
                      inspectGoType(fields[i].type, cfg, At(fields[i]), seen \cup {name})]
      unnamed   == {f \in Range(fields) : cfg.requireExplicitJSONTags /\ ~Explicit(f)}
  IN  IF name \in seen
        THEN [fields |-> <<>>, findings |-> {Finding("recursive_type", path)}]
        ELSE [fields |-> [i \in DOMAIN fields |->
                            mapped[i] @@ [name |-> JSONName(fields[i]),
                              optional |-> \/ fields[i].omitempty
                                           \/ fields[i].type.kind = "pointer"]],
              findings |-> {Finding("ambiguous_json_name", At(f)) : f \in unnamed}
                           \cup UNION {m.findings : m \in Range(mapped)}]

inspectGoType(pointer, cfg, path, seen) ==
  LET type == Behind(pointer)
  IN  CASE type.name \in DOMAIN cfg.formatTypes ->
             [Mapped("string") EXCEPT !.format = cfg.formatTypes[type.name]]
        [] type.name \in cfg.numberTypes \cup {"json.Number"} -> Mapped("number")
        [] OTHER ->
      CASE type.kind \in GoKinds -> Mapped(type.kind)
        [] type.kind = "struct" ->
             LET inner == inspectStructType(type.name, cfg, path, seen)
             IN  [Mapped("object") EXCEPT !.children = inner.fields, !.findings = inner.findings]
        [] type.kind = "slice" ->
             LET item == inspectGoType(type.elem, cfg, Append(path, Element), seen)
             IN  [Mapped("array") EXCEPT !.item = <<item>>, !.findings = item.findings]
        [] type.kind = "map" /\ cfg.allowMapObjects ->
             [Mapped("object") EXCEPT
                !.findings = {Finding("unsupported_schema_feature", path)}]
        [] OTHER ->
             [Mapped("void") EXCEPT !.findings = {Finding("unsupported_go_type", path)}]

\* The findings that are errors where a schema is to be made.
Fatal(findings) == \E f \in findings : f.category # "unsupported_schema_feature"

-----------------------------------------------------------------------------
(* NewSchemaFromStruct.                                                    *)

RECURSIVE schemaFromStructField(_, _)

EntryText(field, cfg, more) ==
  LET When(given, key, value) == IF given THEN <<Field(key, value)>> ELSE <<>>
      children == [i \in DOMAIN field.children |->
                     schemaFromStructField(field.children[i], cfg)]
  IN  <<Field("kind", Str(field.kind))>>
      \o When(field.format # "", "format", Str(field.format))
      \o more
      \o When(field.kind = "object" /\ children # <<>>, "children", Array(children))

Items(field, cfg) ==
  IF field.kind = "array" /\ field.item[1].kind # "void"
    THEN <<Field("items", Object(EntryText(field.item[1], cfg, <<>>)))>> ELSE <<>>

\* Mutant: pointers and omitempty are not looked at.
schemaFromStructFieldRequired(field, cfg) ==
  LET required == cfg.requiredFromNonOmit
  IN  Object(<<Field("name", Str(field.name))>>
             \o EntryText(field, cfg, IF required THEN <<Field("required", True)>> ELSE <<>>)
             \o Items(field, cfg))

\* Of an item that is an array itself the item is not looked at.
schemaFromStructField(field, cfg) ==
  LET required == cfg.requiredFromNonOmit /\ ~field.optional
  IN  Object(<<Field("name", Str(field.name))>>
             \o EntryText(field, cfg, IF required THEN <<Field("required", True)>> ELSE <<>>)
             \o Items(field, cfg))

schemaFromStructFields(fields, cfg) ==
  Object(<<Field("kind", Str("object")),
           Field("children", Array([i \in DOMAIN fields |->
                                      schemaFromStructField(fields[i], cfg)]))>>)

NewSchemaFromStruct(cfg) ==
  LET found == inspectStructType(program.root, cfg, <<>>, {})
  IN  IF Fatal(found.findings) THEN Void ELSE schemaFromStructFields(found.fields, cfg)

-----------------------------------------------------------------------------
(* NewStructSuggestionFromSchema.  The generator keeps the names it has    *)
(* used, the struct types it has made and its notes.                       *)

Generator == [used |-> <<>>, types |-> <<>>, notes |-> {}]
Note(g, category, path) == [g EXCEPT !.notes = @ \cup {Finding(category, path)}]

\* The second use of a name gets a number; nobody asks whether that is new.
uniqueTypeName(g, base) ==
  IF base \in DOMAIN g.used
    THEN [name |-> base \o ToString(g.used[base] + 1),
          g |-> [g EXCEPT !.used[base] = @ + 1]]
    ELSE [name |-> base, g |-> [g EXCEPT !.used = (base :> 1) @@ @]]

RECURSIVE goTypeForSchemaEntry(_, _, _, _)

Nullable(entry, type) == IF entry.nullable THEN Of("pointer", type) ELSE type

\* However many pointers are registered, one is suggested.
goTypeName(type, nullable) ==
  IF nullable \/ type.kind = "pointer" THEN Of("pointer", Behind(type)) ELSE type

\* structFieldsCode: the fields one after the other.
NextSuggestion(acc, id, path) ==
  LET entry == schema.entries[id]
      at    == Append(path, entry.name)
      typed == goTypeForSchemaEntry(acc.g, id, Exported[entry.name], at)
      noted == IF entry.required THEN Note(typed.g, "required_policy_difference", at)
                                 ELSE typed.g
  IN  [g |-> IF IsVoid(entry.default) THEN noted ELSE Note(noted, "default_only_in_schema", at),
       fields |-> Append(acc.fields,
                    [go |-> Exported[entry.name], exported |-> TRUE, tag |-> entry.name,
                     omitempty |-> ~entry.required, type |-> typed.type])]

\* Mutant: what was defined in the meantime is overwritten.
structDefinitionAlone(g, name, children, path) ==
  LET all == FoldLeft(LAMBDA acc, id : NextSuggestion(acc, id, path),
                      [g |-> g, fields |-> <<>>], children)
  IN  [all.g EXCEPT !.types = Append(g.types, [name |-> name, fields |-> all.fields])]

structDefinition(g, name, children, path) ==
  LET all == FoldLeft(LAMBDA acc, id : NextSuggestion(acc, id, path),
                      [g |-> g, fields |-> <<>>], children)
  IN  [all.g EXCEPT !.types = Append(@, [name |-> name, fields |-> all.fields])]

goTypeForSchemaEntry(g, id, suggested, path) ==
  LET entry == schema.entries[id]
  IN  CASE entry.kind = "string" /\ entry.format \in DOMAIN FormatGoTypes ->
             [g |-> g, type |-> goTypeName(FormatGoTypes[entry.format], entry.nullable)]
        [] entry.kind \in {"string", "boolean"} /\ entry.format \notin DOMAIN FormatGoTypes ->
             [g |-> g, type |-> Nullable(entry, GoType(entry.kind))]
        [] entry.kind = "number" -> [g |-> g, type |-> Nullable(entry, JSONNumber)]
        [] entry.kind = "object" ->
             LET named == uniqueTypeName(g, suggested)
             IN  [g |-> structDefinition(named.g, named.name, entry.children, path),
                  type |-> Struct(named.name)]
        [] entry.kind = "array" /\ entry.items = "no entry" ->
             [g |-> Note(g, "unsupported_schema_feature", path),
              type |-> Of("slice", JSONValueType)]
        [] entry.kind = "array" /\ entry.items # "no entry" ->
             LET name == IF schema.entries[entry.items].kind = "object"
                           THEN Singular[suggested] ELSE suggested \o "Item"
                 item == goTypeForSchemaEntry(g, entry.items, name, Append(path, Element))
             IN  [g |-> item.g, type |-> Of("slice", item.type)]
        [] OTHER ->
             [g |-> Note(g, "unsupported_schema_feature", path), type |-> GoType("interface")]

NoSuggestion == [made |-> FALSE]

Suggested(typeName) ==
  LET root == uniqueTypeName(Generator, Exported[typeName])
      all  == structDefinition(root.g, root.name, schema.entries[RootId].children, <<>>)
  IN  [made |-> TRUE, root |-> root.name, types |-> all.types, notes |-> all.notes]

\* What the Go compiler asks of the suggested code.
CodeCompiles ==
  LET defs == suggestion.types
  IN  \A i \in DOMAIN defs :
        /\ defs[i].name \in Identifiers
        /\ \A j \in DOMAIN defs : defs[i].name = defs[j].name => i = j
        /\ \A j \in DOMAIN defs[i].fields :
             /\ defs[i].fields[j].go \in Identifiers
             /\ \A k \in DOMAIN defs[i].fields :
                  defs[i].fields[j].go = defs[i].fields[k].go => j = k

-----------------------------------------------------------------------------
(* CompareStructToSchema.                                                  *)

RECURSIVE compareFieldsToSchema(_, _, _)
compareFieldsToSchema(fields, id, path) ==
  LET children == schema.entries[id].children
      Child(j) == schema.entries[children[j]]
      names    == [i \in DOMAIN fields |-> fields[i].name]
      order    == [j \in DOMAIN children |-> Child(j).name]
      \* Of fields with one name, the last.
      For(j)   == SelectLastInSeq(fields, LAMBDA f : f.name = Child(j).name)
      Differences(entry, f, at) ==
        {Finding(c, at) : c \in
           (IF f.kind # entry.kind THEN {"kind_mismatch"} ELSE {})
           \cup (IF ~IsVoid(entry.default) THEN {"default_only_in_schema"} ELSE {})
           \cup (IF entry.required /\ f.optional THEN {"required_policy_difference"} ELSE {})}
      OfChild(j, i, at) ==
        IF i = 0 THEN {Finding("missing_in_struct", at)}
        ELSE Differences(Child(j), fields[i], at)
             \cup (IF Child(j).kind = "object" /\ fields[i].children # <<>>
                     THEN compareFieldsToSchema(fields[i].children, children[j], at) ELSE {})
      \* The names in a schema are distinct, so that counting says the same.
  IN  {Finding("missing_in_schema", Append(path, n)) : n \in Range(names) \ Range(order)}
      \cup UNION {OfChild(j, For(j), Append(path, order[j])) : j \in DOMAIN children}
      \cup (IF Len(names) = Len(order) /\ Range(names) = Range(order) /\ names # order
              THEN {Finding("order_mismatch", path)} ELSE {})

NoReport == [made |-> FALSE]

Compared(cfg) ==
  LET found == inspectStructType(program.root, cfg, <<>>, {})
  IN  [made |-> TRUE, cfg |-> cfg,
       findings |-> found.findings \cup
         IF schema.entries[RootId].kind = "object"
           THEN compareFieldsToSchema(found.fields, RootId, <<>>)
           ELSE {Finding("unsupported_schema_feature", <<>>)}]
-----------------------------------------------------------------------------
(* The calls.                                                              *)

NoBasis == [made |-> FALSE]

\* An empty schema is what a failed compilation returns.
Init ==
  /\ program \in Programs
  /\ schema = Rejected
  /\ suggestion = NoSuggestion
  /\ report = NoReport
  /\ basis = NoBasis
  /\ derivedWith = {}

SchemaIs(compiled) ==
  /\ schema' = compiled
  /\ suggestion' = NoSuggestion
  /\ report' = NoReport
  /\ UNCHANGED <<program, basis>>

\* The compiled texts, for TLC to compile each of them once.
Compiled == [text \in SchemaTexts |-> CompileSchemaJSON(text)]

CompileSchema(text) ==
  /\ SchemaIs(Compiled[text])
  /\ derivedWith' = {}

CompileSchemaFromStruct(cfg) ==
  /\ SchemaIs(CompileSchemaJSON(NewSchemaFromStruct(cfg)))
  /\ derivedWith' = {cfg}

NewStructSuggestion(typeName) ==
  /\ schema.ok
  /\ schema.entries[RootId].kind = "object"
  /\ suggestion' = Suggested(IF typeName = "" THEN "Generated" ELSE typeName)
  /\ report' = NoReport
  /\ UNCHANGED <<program, schema, basis, derivedWith>>

\* Somebody takes the suggested types, if they compile, for those of the program.
Adopt ==
  /\ suggestion.made
  /\ CodeCompiles
  /\ program' = [root |-> suggestion.root,
                 types |-> [name \in {t.name : t \in Range(suggestion.types)} |->
                              LET t == CHOOSE t \in Range(suggestion.types) : t.name = name
                              IN  t.fields] @@ ForeignTypes]
  /\ suggestion' = NoSuggestion
  /\ basis' = [made |-> TRUE, schema |-> schema, notes |-> suggestion.notes]
  /\ report' = NoReport
  /\ derivedWith' = {}
  /\ UNCHANGED schema

CompareStructToSchema(cfg) ==
  /\ schema.ok
  /\ report' = Compared(cfg)
  /\ suggestion' = NoSuggestion
  /\ UNCHANGED <<program, schema, basis, derivedWith>>

Next ==
  \/ \E text \in SchemaTexts : CompileSchema(text)
  \/ \E cfg \in Configs : CompileSchemaFromStruct(cfg) \/ CompareStructToSchema(cfg)
  \/ \E typeName \in TypeNames : NewStructSuggestion(typeName)
  \/ Adopt

Spec == Init /\ [][Next]_vars

-----------------------------------------------------------------------------
(* Properties.                                                             *)

\* A struct type compared with the schema derived from it, under the same
\* options, differs in nothing: names, kinds, order, what is required.  All
\* that is reported is that maps have no order.  (CompileSchemaFromStructTry
\* and CompareStructToSchema, which walk the type apart from each other.)
DerivedSchemaAgrees ==
  report.made /\ report.cfg \in derivedWith =>
    \A f \in report.findings : f.category = "unsupported_schema_feature"

\* The struct types a type refers to.
RECURSIVE StructsIn(_)
StructsIn(type) ==
  CASE type.kind = "struct"               -> {type.name}
    [] type.kind \in {"pointer", "slice"} -> StructsIn(type.elem)
    [] OTHER                              -> {}

\* `json:"-"`: a required field of this name is skipped.
Kept(entries, id) ==
  SelectSeq(entries[id].children, LAMBDA c : ~(entries[c].name = "-" /\ entries[c].required))

\* Names, kinds and order at every depth.  A type that holds anything says
\* nothing of its items, and of an array in an array only the kind is kept.
RECURSIVE SameOutline(_, _, _, _)
SameOutline(a, i, b, j) ==
  /\ a[i].name = b[j].name
  /\ a[i].kind = b[j].kind
  /\ Len(Kept(a, i)) = Len(b[j].children)
  /\ \A n \in DOMAIN Kept(a, i) : SameOutline(a, Kept(a, i)[n], b, b[j].children[n])
  /\ a[i].items # "no entry" =>
       /\ a[a[i].items].kind = b[b[j].items].kind
       /\ a[a[i].items].kind # "array" => SameOutline(a, a[i].items, b, b[j].items)

\* The struct types that stand for a format, and that the program uses.
FormatStructs == {Behind(t).name : t \in {t \in Range(FormatGoTypes) : Behind(t).kind = "struct"}}
Uses(name) ==
  \E t \in DOMAIN program.types : \E f \in Range(program.types[t]) : name \in StructsIn(f.type)

\* A struct type of a format reads as a string only if StringFormatType says so.
Understands(cfg) == \A name \in FormatStructs : Uses(name) => name \in DOMAIN cfg.formatTypes

\* A suggestion defines every type it uses or has it from another package.
\* Under options that map the struct types of its formats, a program that
\* adopts it differs from the schema only where its notes say so, and the
\* schema derived from that program has the names, kinds and order of the one
\* it began with.  (NewStructSuggestionFromSchema against the other two
\* directions.)
SuggestionIsFaithful ==
  /\ suggestion.made =>
       \A t \in Range(suggestion.types) : \A f \in Range(t.fields) :
         StructsIn(f.type) \subseteq {d.name : d \in Range(suggestion.types)}
                                     \cup DOMAIN ForeignTypes
  /\ report.made /\ basis.made /\ schema = basis.schema /\ Understands(report.cfg) =>
       {f.path : f \in report.findings} \subseteq {n.path : n \in basis.notes}
  /\ basis.made /\ schema.ok /\ (\E cfg \in derivedWith : Understands(cfg)) =>
       SameOutline(basis.schema.entries, RootId, schema.entries, RootId)
=============================================================================
