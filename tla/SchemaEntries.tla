---------------------------- MODULE SchemaEntries ----------------------------
(***************************************************************************)
(* What the schema compiler does with a schema text, which is a JSON       *)
(* value: it turns it into entries or rejects it (compileSchemaEntry in    *)
(* schema.go).  An entry is a record as SchemaRules uses it, with the name *)
(* of its format besides; its id is its path.                              *)
(***************************************************************************)
EXTENDS JSONTrees, SchemaVocabulary

CONSTANTS
  Unit,          \* what NumberValue gives for the number 1
  StringLength,  \* [string text -> its length in runes]
  Formats        \* [format name -> the string texts it accepts]

RootId == "$"

True == Scalar("boolean", "true")

\* parseJSONNumberRat rejects an exponent no int can hold.
Parsable(number) == number.text \in DOMAIN NumberValue
Rat(number)      == NumberValue[number.text]
IsInteger(number) == Rat(number) % Unit = 0

NonNegativeInt(number) == Parsable(number) /\ IsInteger(number) /\ Rat(number) >= 0

\* compileSchemaEntry, without the entries below it and the default.
FieldsOK(value, requireName) ==
  LET Get(k) == GetField(value.fields, k)
      Has(k) == ~IsVoid(Get(k))
  IN  /\ value.kind = "object"
      /\ KeysOf(value.fields) \subseteq SchemaFields
      /\ requireName => Get("name").kind = "string" /\ Get("name").text # ""
      /\ Get("kind").kind = "string" /\ Get("kind").text \in Kinds
      /\ \A k \in DOMAIN OnlyFor : Has(k) => OnlyFor[k] = Get("kind").text
      /\ \A k \in DOMAIN MustBe  : Has(k) => MustBe[k] = Get(k).kind
      /\ \A k \in {"min", "max"} : Has(k) => Parsable(Get(k))
      /\ \A k \in {"min_length", "max_length"} : Has(k) => NonNegativeInt(Get(k))
      /\ Has("enum") => \A i \in DOMAIN Get("enum").items :
                          Get("enum").items[i].kind = "string"
      /\ Has("format") => Get("format").text \in DOMAIN Formats
      /\ Has("min") /\ Has("max") => Rat(Get("min")) <= Rat(Get("max"))
      /\ Has("min_length") /\ Has("max_length") =>
           Rat(Get("min_length")) <= Rat(Get("max_length"))

-----------------------------------------------------------------------------
(* What a compiled string or number entry accepts.                         *)

validateStringValueAgainstSchema(text, value) ==
  LET Get(k) == GetField(value.fields, k)
      Has(k) == ~IsVoid(Get(k))
      length == StringLength[text] * Unit
  IN  /\ Has("min_length") => length >= Rat(Get("min_length"))
      /\ Has("max_length") => length <= Rat(Get("max_length"))
      /\ Has("enum") => \E i \in DOMAIN Get("enum").items :
                          Get("enum").items[i].text = text
      /\ Has("format") => text \in Formats[Get("format").text]

validateNumberValueAgainstSchema(number, value) ==
  LET Get(k) == GetField(value.fields, k)
      Has(k) == ~IsVoid(Get(k))
  IN  /\ Get("integer") = True => IsInteger(number)
      /\ Has("min") => Rat(number) >= Rat(Get("min"))
      /\ Has("max") => Rat(number) <= Rat(Get("max"))

Accepts(value) ==
  CASE GetField(value.fields, "kind").text = "string" ->
         {t \in DOMAIN StringLength : validateStringValueAgainstSchema(t, value)}
    [] GetField(value.fields, "kind").text = "number" ->
         {t \in DOMAIN NumberValue : validateNumberValueAgainstSchema(Num(t), value)}
    [] OTHER -> {}

-----------------------------------------------------------------------------
(* validateValueAgainstSchemaEntry: may this value be the default of entry *)
(* e, given the entries compiled so far?  Unlike normalisation it does not *)
(* ask for the required fields of an object.                               *)
RECURSIVE validateValueAgainstSchemaEntry(_, _, _)

\* Mutant: the kind is checked, what is inside is not.
validateKindOnly(value, e, entries) ==
  value.kind = e.kind \/ (value.kind = "null" /\ e.nullable)

validateValueAgainstSchemaEntry(value, e, entries) ==
  IF value.kind = "null" THEN e.nullable \/ e.kind = "null"
  ELSE /\ value.kind = e.kind
       /\ CASE e.kind = "object" ->
                 \A i \in DOMAIN value.fields, j \in DOMAIN e.children :
                   value.fields[i].key = entries[e.children[j]].name =>
                     validateValueAgainstSchemaEntry(
                       value.fields[i].value, entries[e.children[j]], entries)
            [] e.kind = "array" ->
                 e.items # "no entry" =>
                   \A i \in DOMAIN value.items :
                     validateValueAgainstSchemaEntry(
                       value.items[i], entries[e.items], entries)
            [] e.kind \in {"string", "number"} -> value.text \in e.accepts
            [] OTHER -> TRUE

-----------------------------------------------------------------------------
(* compileSchemaEntry.  An entry's id is its path; `entries` holds it and  *)
(* every entry below it.                                                   *)

\* Mutant: a later child silently takes the place of an earlier one.
AnyNames(children) == TRUE

\* compileChildren: no two children of an object have one name.
DistinctNames(children) ==
  \A i, j \in DOMAIN children : children[i].id = children[j].id => i = j

\* Mutant: a default is only checked where the field is required.
DefaultOfRequiredOK(default, e, entries) ==
  ~IsVoid(default) /\ e.required => validateValueAgainstSchemaEntry(default, e, entries)

\* validateSchemaEntry, which runs after every field of the entry was read.
DefaultOK(default, e, entries) ==
  ~IsVoid(default) => validateValueAgainstSchemaEntry(default, e, entries)

Rejected == [ok |-> FALSE, id |-> "no entry", entries |-> <<>>]

RECURSIVE compileSchemaEntry(_, _, _)
compileSchemaEntry(value, path, requireName) ==
  IF ~FieldsOK(value, requireName) THEN Rejected
  ELSE
  LET Get(k) == GetField(value.fields, k)
      Has(k) == ~IsVoid(Get(k))
      id     == IF requireName THEN path \o "." \o Get("name").text ELSE path
      texts  == IF Has("children") THEN Get("children").items ELSE <<>>
      below  == [i \in DOMAIN texts |-> compileSchemaEntry(texts[i], id, TRUE)]
      items  == IF Has("items") THEN compileSchemaEntry(Get("items"), id \o "[]", FALSE)
                                ELSE [Rejected EXCEPT !.ok = TRUE]
      entry  == [kind |-> Get("kind").text, nullable |-> Get("nullable") = True,
                 format |-> IF Has("format") THEN Get("format").text ELSE "",
                 accepts |-> Accepts(value), items |-> items.id,
                 children |-> [i \in DOMAIN below |-> below[i].id],
                 name |-> IF requireName THEN Get("name").text ELSE "",
                 required |-> Get("required") = True, default |-> Get("default")]
      entries == FoldLeft(LAMBDA acc, c : acc @@ c.entries,
                          (id :> entry) @@ items.entries, below)
  IN  IF /\ items.ok
         /\ \A i \in DOMAIN below : below[i].ok
         /\ DistinctNames(below)
         /\ DefaultOK(Get("default"), entry, entries)
        THEN [ok |-> TRUE, id |-> id, entries |-> entries]
        ELSE Rejected

\* CompileSchemaJSON.
CompileSchemaJSON(text) == compileSchemaEntry(text, RootId, FALSE)
=============================================================================
