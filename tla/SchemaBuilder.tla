---------------------------- MODULE SchemaBuilder ----------------------------
(***************************************************************************)
(* The schema builders (schema_builder.go): the calls of BuilderCalls, and *)
(* Build, which writes the tree of entries as a schema text and compiles   *)
(* it.                                                                     *)
(***************************************************************************)
EXTENDS SchemaEntries, BuilderCalls

CONSTANT HeldValues  \* what the value that Default and Custom are given may be

VARIABLES
  held,  \* the value given to Default and Custom: the caller still has it
  built  \* what the last call returned, if it was Build

vars == <<entries, running, asked, held, built>>

-----------------------------------------------------------------------------
(* Build.                                                                  *)

RECURSIVE HasBuildError(_)

\* Mutant: the items of an array are not asked.
HasBuildErrorInChildren(id) ==
  \/ entries[id].buildErrors
  \/ \E i \in DOMAIN entries[id].children : HasBuildError(entries[id].children[i])

HasBuildError(id) ==
  LET e == entries[id]
  IN  \/ e.buildErrors
      \/ \E i \in DOMAIN e.children : HasBuildError(e.children[i])
      \/ e.items # 0 /\ HasBuildError(e.items)

\* ToJSON, read back by the compiler: Void is not written.
RECURSIVE Written(_)
Written(value) ==
  CASE value.kind = "object" ->
         LET fields == nonVoidObjectFields(value.fields)
         IN  Object([i \in DOMAIN fields |-> Field(fields[i].key, Written(fields[i].value))])
    [] value.kind = "array" ->
         LET items == SelectSeq(value.items, LAMBDA item : ~IsVoid(item))
         IN  Array([i \in DOMAIN items |-> Written(items[i])])
    [] OTHER -> value

\* The options come in any order: nothing depends on it.
RECURSIVE toJSONValue(_, _)
toJSONValue(id, root) ==
  LET e == entries[id]
      keys == SetToSeq(DOMAIN e.fields)
      Option(k) == IF e.fields[k] = Held THEN held ELSE e.fields[k]
      When(given, key, value) == IF given THEN <<Field(key, value)>> ELSE <<>>
  IN  Object(
        When(~root, "name", NewString(e.name))
        \o <<Field("kind", Str(e.kind))>>
        \o [i \in DOMAIN keys |-> Field(keys[i], Option(keys[i]))]
        \o When(e.children # <<>>, "children",
                Array([i \in DOMAIN e.children |-> toJSONValue(e.children[i], FALSE)]))
        \o When(e.items # 0, "items",
                IF e.items = 0 THEN Void ELSE toJSONValue(e.items, TRUE)))

NotBuilt == [done |-> FALSE]

\* Of the builder of entry 1, also while a callback runs.
Build ==
  /\ entries # <<>> /\ ~built.done
  /\ built' = [done |-> TRUE, held |-> held,
               schema |-> IF HasBuildError(1) THEN Rejected
                          ELSE CompileSchemaJSON(Written(toJSONValue(1, TRUE)))]
  /\ UNCHANGED <<entries, running, held, asked>>

-----------------------------------------------------------------------------
Init == Start /\ built = NotBuilt /\ held \in HeldValues

\* A call on a builder, or its return.
BuilderCall == CallOrReturn /\ built' = NotBuilt /\ UNCHANGED held

\* The caller changes the value it gave to Default or Custom.
ChangeHeld(value) ==
  /\ value # held
  /\ held' = value
  /\ UNCHANGED <<entries, running, built, asked>>

Next == BuilderCall \/ Build \/ \E value \in HeldValues : ChangeHeld(value)

Spec == Init /\ [][Next]_vars

-----------------------------------------------------------------------------
(* What was asked for.                                                     *)

\* The calls on a builder that have returned, those that count: every field,
\* and the items set last.
FieldsAsked(id) == IF asked[id].kind = "object" THEN asked[id].done ELSE <<>>
ItemsAsked(id)  ==
  IF asked[id].kind = "array" /\ asked[id].done # <<>> THEN {Last(asked[id].done)} ELSE {}

\* What the options of a call come to: the last one for each field, and of the
\* value the caller holds what it was when the schema was built.
Says(id, key) ==
  LET opts == asked[id].opts
      last == SelectLastInSeq(opts, LAMBDA o : o.key = key)
  IN  CASE last = 0 -> Void
        [] opts[last].arg = Held -> built.held
        [] OTHER -> Written(Argument(opts[last]))

\* May a text be the value of a scalar entry?
Allowed(id, text) ==
  LET Limit(key, n, least) == LET value == Says(id, key) IN
        IsVoid(value) \/ IF least THEN n >= Rat(value) ELSE n <= Rat(value)
      enum   == Says(id, "enum")
      format == Says(id, "format")
  IN  IF asked[id].kind = "string"
        THEN /\ Limit("min_length", StringLength[text] * Unit, TRUE)
             /\ Limit("max_length", StringLength[text] * Unit, FALSE)
             /\ IsVoid(enum) \/ Contains(enum.items, Str(text))
             /\ IsVoid(format) \/ text \in Formats[format.text]
        ELSE /\ Limit("min", NumberValue[text], TRUE)
             /\ Limit("max", NumberValue[text], FALSE)
             /\ Says(id, "integer") = True => NumberValue[text] % Unit = 0

AllowedTexts(id) ==
  CASE asked[id].kind = "string" -> {t \in DOMAIN StringLength : Allowed(id, t)}
    [] asked[id].kind = "number" -> {t \in DOMAIN NumberValue : Allowed(id, t)}
    [] OTHER -> {}

RECURSIVE Suits(_, _)
Suits(value, id) ==
  IF value = Null THEN Says(id, "nullable") = True
  ELSE /\ value.kind = asked[id].kind
       /\ CASE value.kind = "object" ->
                 \A f \in Range(value.fields), child \in Range(FieldsAsked(id)) :
                   f.key = asked[child].name => Suits(f.value, child)
            [] value.kind = "array" ->
                 \A item \in Range(value.items), i \in ItemsAsked(id) : Suits(item, i)
            [] value.kind \in {"string", "number"} -> value.text \in AllowedTexts(id)
            [] OTHER -> TRUE

\* Can the schema be built from what was asked for?
RECURSIVE Sound(_)
Sound(id) ==
  LET fields == FieldsAsked(id)
      Name(i) == asked[fields[i]].name
      InOrder(low, high) ==
        ~IsVoid(Says(id, low)) /\ ~IsVoid(Says(id, high)) =>
          Rat(Says(id, low)) <= Rat(Says(id, high))
  IN  /\ \A o \in Range(asked[id].opts) : ~IsRefused(o)
      /\ \A k \in {"min", "max"} : IsVoid(Says(id, k)) \/ Parsable(Says(id, k))
      /\ InOrder("min", "max") /\ InOrder("min_length", "max_length")
      /\ IsVoid(Says(id, "format")) \/ Says(id, "format").text \in DOMAIN Formats
      /\ \A i \in DOMAIN fields :
           /\ Name(i) # "" /\ Name(i) \notin Malformed
           /\ \A j \in DOMAIN fields : Name(i) = Name(j) => i = j
      /\ \A below \in Range(fields) \cup ItemsAsked(id) : Sound(below)
      /\ IsVoid(Says(id, "default")) \/ Suits(Says(id, "default"), id)

Outline(name, kind, required, nullable, accepts, default, children, items) ==
  [name |-> name, kind |-> kind, required |-> required, nullable |-> nullable,
   accepts |-> accepts, default |-> default, children |-> children, items |-> items]

RECURSIVE Asked(_, _)
Asked(id, name) ==
  LET fields == FieldsAsked(id)
  IN  Outline(name, asked[id].kind, Says(id, "required") = True, Says(id, "nullable") = True,
              AllowedTexts(id), Says(id, "default"),
              [i \in DOMAIN fields |-> Asked(fields[i], asked[fields[i]].name)],
              {Asked(i, "") : i \in ItemsAsked(id)})

RECURSIVE Compiled(_, _)
Compiled(schema, id) ==
  LET e == schema[id]
  IN  Outline(e.name, e.kind, e.required, e.nullable, e.accepts, e.default,
              [i \in DOMAIN e.children |-> Compiled(schema, e.children[i])],
              {Compiled(schema, i) : i \in {e.items} \ {"no entry"}})

-----------------------------------------------------------------------------
(* Correctness.                                                            *)

\* schema-builders.md: "Builders should produce the same schema model", and
\* "Build should fail when the builder contains invalid field names, duplicate
\* field names, invalid defaults, unsupported validation combinations,
\* malformed number constraints, unsupported formats, or invalid nested
\* schemas".  Build fails for no other reason; the schema it returns has the
\* fields of the calls that had returned, in the order in which they returned,
\* each with what its options said last.
BuiltAsAsked ==
  built.done =>
    /\ built.schema.ok <=> Sound(1)
    /\ built.schema.ok => Compiled(built.schema.entries, RootId) = Asked(1, "")
=============================================================================
