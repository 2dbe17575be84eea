----------------------------- MODULE SchemaRules -----------------------------
(***************************************************************************)
(* Compiled schemas and what applying one to a value means (schema.go,     *)
(* schema_apply.go).                                                       *)
(*                                                                         *)
(* A compiled schema is a graph of entries: Schema maps the id of each     *)
(* entry to its record, and an id stands for the *schemaEntry pointer a    *)
(* node carries.  The record of an entry has                               *)
(*   kind      the kind the value must have,                               *)
(*   nullable  whether null is accepted instead,                           *)
(*   accepts   for strings and numbers, the texts the enum, the length,    *)
(*             the format or the range admit,                              *)
(*   items     the entry of an array's items, or NoEntry,                  *)
(*   children  for objects, the entries of the known fields in order,      *)
(*   name, required, default   as a field of its parent (default is Void   *)
(*             when the schema gives none).                                *)
(***************************************************************************)
EXTENDS JSONTrees, FiniteSets

CONSTANTS
  Schema,  \* [entry id -> entry record]
  Root     \* the entry of the document itself

NoEntry == "no entry"

EntryRecord(kind) ==
  [kind |-> kind, nullable |-> FALSE, accepts |-> {}, items |-> NoEntry,
   children |-> <<>>, name |-> "", required |-> FALSE, default |-> Void]

Children(entry) ==
  IF entry = NoEntry THEN <<>> ELSE Schema[entry].children

\* Entries by name; NoEntry for a field the schema does not know.
ChildEntry(entry, key) ==
  LET i == SelectInSeq(Children(entry), LAMBDA c : Schema[c].name = key)
  IN  IF i = 0 THEN NoEntry ELSE Children(entry)[i]

Known(entry, key) == ChildEntry(entry, key) # NoEntry

ItemEntry(entry) == IF entry = NoEntry THEN NoEntry ELSE Schema[entry].items

-----------------------------------------------------------------------------
(* normalizeValueForSchema: the value rewritten for the entry, or a        *)
(* failure.  Known fields come first, in the order of the schema, missing  *)
(* ones are taken from their default; unknown fields follow in the order   *)
(* they had.                                                               *)

Failure       == [ok |-> FALSE, value |-> Void]
Normal(value) == [ok |-> TRUE, value |-> value]

\* Each of these is given the normalisation of what is nested in the value.

\* Mutant: fields the schema does not know are dropped.
normalizeObjectKnownOnly(fields, children, nested) ==
  LET source == nonVoidObjectFields(fields)
      Outcome(child) ==
        LET value == GetField(source, Schema[child].name)
        IN  IF ~IsVoid(value) THEN nested[child][value]
            ELSE IF ~IsVoid(Schema[child].default)
              THEN Normal(Schema[child].default)
              ELSE IF Schema[child].required THEN Failure ELSE Normal(Void)
      known == [i \in DOMAIN children |->
                  Field(Schema[children[i]].name, Outcome(children[i]).value)]
  IN  IF \E i \in DOMAIN children : ~Outcome(children[i]).ok
        THEN Failure ELSE Normal(Object(nonVoidObjectFields(known)))

\* Mutant: a default is inserted as the schema text gives it.
normalizeObjectRawDefaults(fields, children, nested) ==
  LET source == nonVoidObjectFields(fields)
      Outcome(child) ==
        LET value == GetField(source, Schema[child].name)
        IN  IF ~IsVoid(value) THEN nested[child][value]
            ELSE IF IsVoid(Schema[child].default) /\ Schema[child].required
              THEN Failure ELSE Normal(Schema[child].default)
      known == [i \in DOMAIN children |->
                  Field(Schema[children[i]].name, Outcome(children[i]).value)]
      unknown == {n \in DOMAIN source :
                    \A i \in DOMAIN children : Schema[children[i]].name # source[n].key}
  IN  IF \E i \in DOMAIN children : ~Outcome(children[i]).ok
        THEN Failure
        ELSE Normal(Object(nonVoidObjectFields(known) \o Those(source, unknown)))

normalizeObjectForSchema(fields, children, nested) ==
  LET source == nonVoidObjectFields(fields)
      Outcome(child) ==
        LET i == SelectLastInSeq(source, LAMBDA f : f.key = Schema[child].name)
        IN  IF i > 0
              THEN nested[child][source[i].value]
              ELSE IF ~IsVoid(Schema[child].default)
                THEN nested[child][Schema[child].default]
                ELSE IF Schema[child].required THEN Failure ELSE Normal(Void)
      outcomes == [i \in DOMAIN children |-> Outcome(children[i])]
      known    == [i \in DOMAIN children |->
                     Field(Schema[children[i]].name, outcomes[i].value)]
      unknown == {n \in DOMAIN source :
                    \A i \in DOMAIN children : Schema[children[i]].name # source[n].key}
  IN  IF \E i \in DOMAIN children : ~outcomes[i].ok
        THEN Failure
        ELSE Normal(Object(nonVoidObjectFields(known) \o Those(source, unknown)))

normalizeArrayForSchema(items, entry, nested) ==
  LET source   == Those(items, {i \in DOMAIN items : ~IsVoid(items[i])})
      outcomes == [i \in DOMAIN source |-> nested[entry][source[i]]]
  IN  IF \E i \in DOMAIN source : ~outcomes[i].ok
        THEN Failure
        ELSE Normal(Array([i \in DOMAIN source |-> outcomes[i].value]))

normalizeGoverned(value, e, nested) ==
  IF value.kind = "null"
    THEN IF e.kind = "null" \/ e.nullable THEN Normal(Null) ELSE Failure
  ELSE IF value.kind # e.kind THEN Failure
  ELSE
  CASE value.kind = "object" ->
         normalizeObjectForSchema(value.fields, e.children, nested)
    [] value.kind = "array"  -> normalizeArrayForSchema(value.items, e.items, nested)
    [] value.kind \in {"string", "number"} ->
         IF value.text \in e.accepts THEN Normal(value) ELSE Failure
    [] OTHER -> Normal(value)

\* With an entry that has at most so many levels of entries, its own included.
normalized[levels \in Nat] ==
  [entry \in DOMAIN Schema \cup {NoEntry} |->
     [value \in Trees |->
        IF entry = NoEntry THEN Normal(value)
        ELSE IF levels = 0 THEN Failure
        ELSE normalizeGoverned(value, Schema[entry], normalized[levels - 1])]]

\* No entry is below itself.
normalizeValueForSchema(value, entry) ==
  normalized[Cardinality(DOMAIN Schema)][entry][value]

-----------------------------------------------------------------------------
(* reorderObjectFieldsBySchema: known fields in the order of the schema,   *)
(* then the unknown ones as they stood.                                    *)
reorderObjectFieldsBySchema(fields, entry) ==
  IF entry = NoEntry \/ Schema[entry].kind # "object" THEN fields
  ELSE LET source  == nonVoidObjectFields(fields)
           ordered == [i \in DOMAIN Children(entry) |->
                         LET name == Schema[Children(entry)[i]].name
                         IN  Field(name, GetField(source, name))]
       IN  nonVoidObjectFields(ordered)
             \o Those(source, {i \in DOMAIN source : ~Known(entry, source[i].key)})
=============================================================================
